---- MODULE Spec2Model ----
(***************************************************************************)
(* Model of the Mystara chat endpoint: a per-caller fixed-window rate      *)
(* limiter in front of a proxied text-generation call, answered either as  *)
(* one JSON payload or as a stream of server-sent-event frames.            *)
(*                                                                         *)
(* The repository holds several deployments of the same handler; each is   *)
(* a module of its own with its own rateLimits map.  The variable          *)
(* `variant` says which one is deployed:                                   *)
(*   "bufferedKey"   src/unnamed/part_000  lines  14-230                   *)
(*   "bufferedOld"   src/unnamed/part_000  lines 245-398                   *)
(*   "edgeStream"    src/unnamed/part_000  lines 455-680                   *)
(*   "edgeStreamTry" src/unnamed/part_000  lines 698-1004                  *)
(*   "rechunk"       src/unnamed/part_001  lines  14-230                   *)
(*   "bufferedLite"  src/api/gemini.js     lines 119-298                   *)
(*                                                                         *)
(* JavaScript runs a handler without interruption between two awaits, so   *)
(* one action is the code between two awaits of one request.               *)
(***************************************************************************)
EXTENDS Integers, Sequences, FiniteSets, TLC

(* ------------------------------------------------------------------ *)
(* Program constants                                                    *)
(* ------------------------------------------------------------------ *)
FREE_LIMIT == 10
PREMIUM_LIMIT == 100
RESET_INTERVAL == 60000
MAX_ENTRIES == 10000
MSG_LIMIT == 2000
MSG_LIMIT_OLD == 1000
CHUNK_SIZE == 20
MS_PER_SECOND == 1000

(* ------------------------------------------------------------------ *)
(* Bounds of the model                                                  *)
(* ------------------------------------------------------------------ *)
\* requests that may reach the quota step in one behaviour
MaxRequests == 2
\* chunks the upstream stream may deliver for one request
MaxChunks == 1

PerMinuteVariants ==
  {"bufferedKey", "bufferedOld", "edgeStream", "edgeStreamTry", "rechunk", "bufferedLite"}
BufferedVariants == {"bufferedKey", "bufferedOld", "bufferedLite"}
EdgeVariants == {"edgeStream", "edgeStreamTry"}
StreamingVariants == EdgeVariants \cup {"rechunk"}
Variants == PerMinuteVariants

\* callers whose records are followed one by one; every other caller only
\* counts in the size of the table (variable others)
Users == {"u1", "u2"}
NoUser == "none"
\* requests that may be in flight at the same time
Reqs == {1, 2}

\* instants (ms) at which the clock is read: the first and the last
\* millisecond of the first two windows
Instants == {0, RESET_INTERVAL - 1, RESET_INTERVAL, 2 * RESET_INTERVAL - 1}

(* ------------------------------------------------------------------ *)
(* Messages and the content filter                                      *)
(* ------------------------------------------------------------------ *)
Upper == <<"A", "B", "C", "D", "E", "F", "G", "H", "I", "J", "K", "L", "M", "N", "O", "P", "Q", "R", "S", "T", "U", "V", "W", "X", "Y", "Z">>
Lower == <<"a", "b", "c", "d", "e", "f", "g", "h", "i", "j", "k", "l", "m", "n", "o", "p", "q", "r", "s", "t", "u", "v", "w", "x", "y", "z">>

BLOCKED_PHRASES ==
  { <<"i", "g", "n", "o", "r", "e">>,
    <<"f", "o", "r", "g", "e", "t">>,
    <<"b", "y", "p", "a", "s", "s">>,
    <<"j", "a", "i", "l", "b", "r", "e", "a", "k">>,
    <<"i", "n", "s", "t", "r", "u", "c", "c", "i", "o", "n", "e", "s", " ", "a", "n", "t", "e", "r", "i", "o", "r", "e", "s">>,
    <<"s", "y", "s", "t", "e", "m", " ", "p", "r", "o", "m", "p", "t">> }

\* A message is its leading characters (core) followed by pad copies of the
\* digit "7", which occurs in no blocked phrase, so that a 2001-character
\* message need not be spelled out.  absent: the field is not in the body.
MsgIds == {"absent", "empty", "plain", "mixedCase", "shout", "len1001", "len2000", "len2001"}
MsgText(m) ==
  CASE m = "absent"    -> [absent |-> TRUE,  core |-> <<>>, pad |-> 0]
    [] m = "empty"     -> [absent |-> FALSE, core |-> <<>>, pad |-> 0]
    [] m = "plain"     -> [absent |-> FALSE, core |-> <<"h", "o", "l", "a", " ", "l", "u", "n", "a">>, pad |-> 0]
    [] m = "mixedCase" -> [absent |-> FALSE, core |-> <<"H", "a", "z", " ", "J", "a", "i", "l", "B", "r", "e", "a", "k", " ", "y", "a">>, pad |-> 0]
    [] m = "shout"     -> [absent |-> FALSE, core |-> <<"I", "G", "N", "O", "R", "E", " ", "t", "o", "d", "o">>, pad |-> 0]
    [] m = "len1001"   -> [absent |-> FALSE, core |-> <<"b", "y", "p", "a", "s", "s">>, pad |-> 995]
    [] m = "len2000"   -> [absent |-> FALSE, core |-> <<"h", "o", "l", "a">>, pad |-> 1996]
    [] m = "len2001"   -> [absent |-> FALSE, core |-> <<"h", "o", "l", "a">>, pad |-> 1997]

MsgLength(m) == Len(MsgText(m).core) + MsgText(m).pad

\* !userMessage : undefined and the empty string are falsy
MsgFalsy(m) == MsgText(m).absent \/ MsgLength(m) = 0

ToLowerChar(c) ==
  IF \E i \in 1..Len(Upper) : Upper[i] = c
    THEN Lower[CHOOSE i \in 1..Len(Upper) : Upper[i] = c]
    ELSE c
\* faulty variant: the filter compares the message as typed
ToLowerCase_Identity(s) == s
ToLowerCase(s) == [i \in 1..Len(s) |-> ToLowerChar(s[i])]

Includes(s, p) ==
  \E i \in 1..(Len(s) - Len(p) + 1) : SubSeq(s, i, i + Len(p) - 1) = p

\* faulty variant: the filter stops nothing
IsBlocked_Never(m) == FALSE

IsBlocked(m) ==
  LET lowerMessage == ToLowerCase(MsgText(m).core)
  IN  \E phrase \in BLOCKED_PHRASES : Includes(lowerMessage, phrase)

\* the messages the filter stops
BlockedMsgs == {m \in MsgIds : IsBlocked(m)}

(* ------------------------------------------------------------------ *)
(* Requests                                                             *)
(* ------------------------------------------------------------------ *)
Methods == {"POST", "OPTIONS", "GET"}
\* isPremium as sent: the handler coerces it with Boolean()
PremiumFlags == {"true", "false", "absent"}
ToBoolean(f) == f = "true"

Body(msgs, users, flags) ==
  [method : {"POST"}, bodyOk : {TRUE}, msg : msgs, userId : users, isPremium : flags]

\* The requests that are sent.  bodyOk = FALSE: the body is missing or is
\* not JSON, so that reading its fields throws.
Requests ==
  [method : {"OPTIONS", "GET"}, bodyOk : {TRUE}, msg : {"plain"}, userId : {"u1"}, isPremium : {"false"}]
  \cup [method : {"POST"}, bodyOk : {FALSE}, msg : {"absent"}, userId : {NoUser}, isPremium : {"absent"}]
  \cup Body({"absent", "empty", "len1001", "len2001"}, {"u1"}, {"false"})
  \cup Body({"plain"}, {NoUser}, {"false"})
  \cup Body({"plain"}, {"u1"}, {"true", "false"})
  \cup Body({"mixedCase"}, {"u1"}, {"false"})
  \cup Body({"len2000", "shout"}, {"u2"}, {"absent"})

NoRequest == [method |-> "none", bodyOk |-> FALSE, msg |-> "absent", userId |-> NoUser, isPremium |-> "absent"]

(* ------------------------------------------------------------------ *)
(* The quota table                                                      *)
(* ------------------------------------------------------------------ *)
NoRec == [present |-> FALSE, count |-> 0, resetTime |-> 0]
EmptyTable == [u \in Users |-> NoRec]

Limit(isPremium) == IF isPremium THEN PREMIUM_LIMIT ELSE FREE_LIMIT

\* faulty variant: the seconds are rounded down
CeilSeconds_Floor(ms) == ms \div MS_PER_SECOND

\* Math.ceil(ms / 1000) for an integer ms
CeilSeconds(ms) ==
  IF ms % MS_PER_SECOND = 0 THEN ms \div MS_PER_SECOND ELSE (ms \div MS_PER_SECOND) + 1

\* rateLimits.size
TableSize(tbl, oth) == Cardinality({u \in Users : tbl[u].present}) + oth

\* faulty variant: the window is still open in the millisecond of resetTime
WindowOver_Strict(rec, t) == t > rec.resetTime

\* now >= userLimit.resetTime
WindowOver(rec, t) == t >= rec.resetTime

\* faulty variant: the limit check lets the count pass the limit by one
OverLimit_Strict(rec, limit) == rec.count > limit

\* userLimit.count >= limit
OverLimit(rec, limit) == rec.count >= limit

\* faulty variant: every request, rejected ones too, moves the end of the window
AfterReset_Sliding(rec, t) ==
  IF WindowOver(rec, t)
    THEN [present |-> TRUE, count |-> 0, resetTime |-> t + RESET_INTERVAL]
    ELSE [rec EXCEPT !.resetTime = t + RESET_INTERVAL]

\* the record after the reset branch
AfterReset(rec, t) ==
  IF WindowOver(rec, t)
    THEN [present |-> TRUE, count |-> 0, resetTime |-> t + RESET_INTERVAL]
    ELSE rec

\* faulty variant: the first window of a caller closes a millisecond early
FirstRecord_Short(t) == [present |-> TRUE, count |-> 1, resetTime |-> t + RESET_INTERVAL - 1]

\* the record a first request creates
FirstRecord(t) == [present |-> TRUE, count |-> 1, resetTime |-> t + RESET_INTERVAL]

\* faulty variant: the increment is written to a stale copy and lost
Incremented_Lost(rec) == rec

\* the record after userLimit.count++
Incremented(rec) == [rec EXCEPT !.count = @ + 1]

\* Lookup, window reset, limit check and increment for caller u.
\* allowed = FALSE is the 429 branch.
RateLimit(tbl, u, limit, t) ==
  IF tbl[u].present
    THEN LET userLimit == AfterReset(tbl[u], t)
         IN  IF OverLimit(userLimit, limit)
               THEN [ allowed |-> FALSE,
                      table   |-> [tbl EXCEPT ![u] = userLimit],
                      resetIn |-> CeilSeconds(userLimit.resetTime - t) ]
               ELSE [ allowed |-> TRUE,
                      table   |-> [tbl EXCEPT ![u] = Incremented(userLimit)],
                      resetIn |-> 0 ]
    ELSE [ allowed |-> TRUE,
           table   |-> [tbl EXCEPT ![u] = FirstRecord(t)],
           resetIn |-> 0 ]

\* faulty variant: the Map is cleared one entry later
Exceeds_Late(size) == size > MAX_ENTRIES + 1
\* size > 10000
Exceeds(size) == size > MAX_ENTRIES

\* if (rateLimits.size > 10000) rateLimits.clear()
TooLarge(tbl, oth) == Exceeds(TableSize(tbl, oth))
\* faulty variant: the Map is cleared as soon as it holds 10,000 entries
ClearIfLarge_Early(tbl, oth) ==
  IF TableSize(tbl, oth) >= MAX_ENTRIES
    THEN [table |-> EmptyTable, others |-> 0]
    ELSE [table |-> tbl, others |-> oth]
ClearIfLarge(tbl, oth) ==
  IF TooLarge(tbl, oth)
    THEN [table |-> EmptyTable, others |-> 0]
    ELSE [table |-> tbl, others |-> oth]

\* remainingRequests >= 0 ? remainingRequests : 0
Remaining(limit, count) ==
  LET remainingRequests == limit - count
  IN  IF remainingRequests >= 0 THEN remainingRequests ELSE 0

(* ------------------------------------------------------------------ *)
(* Responses                                                            *)
(* ------------------------------------------------------------------ *)
CANNED == <<"canned">>

\* One frame of a streamed response.  k: text, meta, error or done;
\* t: the text of a text frame; n: remainingRequests of a meta frame;
\* m: the message of an error frame
TextFrame(t) == [k |-> "text", t |-> t, n |-> -1, m |-> "none"]
MetaFrame(n) == [k |-> "meta", t |-> <<>>, n |-> n, m |-> "none"]
ErrorFrame(m) == [k |-> "error", t |-> <<>>, n |-> -1, m |-> m]
DoneFrame == [k |-> "done", t |-> <<>>, n |-> -1, m |-> "none"]

\* ended: the response is complete, the stream closed; fault: an exception
\* left the start routine of the stream
NoResp ==
  [ status |-> 0, kind |-> "none", remaining |-> -1, resetIn |-> 0, msg |-> "none",
    frames |-> <<>>, ended |-> FALSE, fault |-> FALSE ]

\* a JSON answer: status, what it is, the text of its message field
Json(status, kind, msg) ==
  [NoResp EXCEPT !.status = status, !.kind = kind, !.msg = msg, !.ended = TRUE]

\* a response whose body is a stream of frames
Stream(kind, frames, ended) ==
  [NoResp EXCEPT !.status = 200, !.kind = kind, !.frames = frames, !.ended = ended]

HandlesOptions(v) == v # "bufferedOld"
\* faulty variant: the length check lets a 2001-character message through
MessageLimit_Off(v) == MSG_LIMIT + 1
MessageLimit(v) == IF v = "bufferedOld" THEN MSG_LIMIT_OLD ELSE MSG_LIMIT
ChecksKey(v) == v \in {"bufferedKey", "edgeStream", "edgeStreamTry"}
\* The message field of an error answer is one of: "generic", a fixed text;
\* "upstream", the message of the error the upstream call raised; "internal",
\* the message of an error raised by the handler's own code.
\* The outermost catch of the first handler sends error.message.
OuterCatchMsg(v) == IF v = "bufferedKey" THEN "internal" ELSE "generic"

BlockedReply(v) ==
  IF v \in EdgeVariants
    THEN Stream("blocked", <<TextFrame(CANNED), DoneFrame>>, TRUE)
    ELSE [Json(200, "blocked", "none") EXCEPT !.frames = <<>>]


(* ------------------------------------------------------------------ *)
(* State                                                                *)
(* ------------------------------------------------------------------ *)
VARIABLES
  variant,              \* which handler is deployed
  apiKey,               \* process.env.GEMINI_API_KEY is set
  now,                  \* Date.now()
  rateLimits,           \* the Map, for the callers of Users
  others,               \* number of entries of the Map of all other callers
  globalRequestNumber,  \* the log sequence counter
  received,             \* requests that reached the quota step so far
  winAdmits,            \* admissions of each caller since its record was created or reset
  pc,                   \* where each request in flight is: idle, upstream, streaming
  req,                  \* the request each slot is handling
  resp,                 \* what its caller has received so far
  adm,                  \* what the quota step decided for it
  up,                   \* its upstream call
  last,                 \* the exchange the last step completed, if it completed one
  userLimits,           \* the Map of the daily-limit handler, for the callers of Users
  served,               \* generated responses the daily-limit handler sent each caller today
  admitLog              \* admissions of the caller of a burst, by the instant of each

vars ==
  << variant, apiKey, now, rateLimits, others, globalRequestNumber, received,
     winAdmits, pc, req, resp, adm, up, last, userLimits, served, admitLog >>

\* reached: the quota step ran; allowed: it did not answer 429; limit: the
\* limit of the request's tier; count: the caller's count when the step
\* ended; nth: the request's rank among the admissions of the caller's
\* window; logged: the structured log records the request wrote
NoAdm ==
  [reached |-> FALSE, allowed |-> FALSE, limit |-> 0, count |-> 0, nth |-> 0, logged |-> 0]
\* calls: upstream calls started; text, i: the text sent in slices and the
\* index of the slice sent last; chunks: chunks received from the upstream
\* stream; cancelled: the caller has gone and the stream was cancelled
NoUp == [calls |-> 0, text |-> <<>>, i |-> 0, chunks |-> 0, cancelled |-> FALSE]
Exchange(rq, response, admission, upstream) ==
  [ req |-> rq, resp |-> response, adm |-> admission, calls |-> upstream.calls,
    cancelled |-> upstream.cancelled ]
NoExchange == Exchange(NoRequest, NoResp, NoAdm, NoUp)

\* userLimits.get(userKey) || 0 : a key the Map does not hold counts 0
NoLimits == [u \in Users |-> 0]
\* no admission at any instant
NoLog == [t \in Instants |-> 0]

\* The states the service is in when the first request of a behaviour
\* arrives: no request in flight, and a table left by earlier requests, all
\* sent at instant 0.  u1Count is the number of requests u1 has been
\* admitted for (0: no record), otherCallers the number of other callers
\* that have a record.  A deployment without the upstream credential is
\* followed from the empty table.
Histories ==
  { [u1Count |-> 0, otherCallers |-> 0],
    [u1Count |-> FREE_LIMIT - 1, otherCallers |-> 0],
    [u1Count |-> PREMIUM_LIMIT - 1, otherCallers |-> 0],
    [u1Count |-> 1, otherCallers |-> MAX_ENTRIES - 1] }

Init ==
  /\ variant \in Variants
  /\ now = 0
  /\ \E h \in Histories :
       /\ apiKey \in (IF h.u1Count = 0 THEN BOOLEAN ELSE {TRUE})
       /\ rateLimits = [u \in Users |->
                          IF u = "u1" /\ h.u1Count > 0
                            THEN [FirstRecord(0) EXCEPT !.count = h.u1Count]
                            ELSE NoRec]
       /\ others = h.otherCallers
       /\ globalRequestNumber = h.u1Count + h.otherCallers
       /\ winAdmits = [u \in Users |-> IF u = "u1" THEN h.u1Count ELSE 0]
  /\ received = 0
  /\ pc = [r \in Reqs |-> "idle"]
  /\ req = [r \in Reqs |-> NoRequest]
  /\ resp = [r \in Reqs |-> NoResp]
  /\ adm = [r \in Reqs |-> NoAdm]
  /\ up = [r \in Reqs |-> NoUp]
  /\ last = NoExchange
  /\ userLimits = NoLimits
  /\ served = NoLimits
  /\ admitLog = NoLog

(* ------------------------------------------------------------------ *)
(* The synchronous part of the handler: from the method check to the    *)
(* await on the upstream call                                           *)
(* ------------------------------------------------------------------ *)
\* What that code does with a request: next is the request's next position,
\* calls the number of upstream calls it started.
Outcome(next, response, tbl, oth, seq, admission, wins, called) ==
  [ next |-> next, resp |-> response, table |-> tbl, others |-> oth, seq |-> seq,
    adm |-> admission, wins |-> wins, calls |-> IF called THEN 1 ELSE 0 ]

Untouched(response) ==
  Outcome("idle", response, rateLimits, others, globalRequestNumber, NoAdm, winAdmits, FALSE)

\* The REQUEST_PROCESSED records written for currentLimit = rec: the record
\* is built from currentLimit.count, which throws before console.log is
\* called when currentLimit is undefined.
Processed(rec) == IF rec.present THEN 1 ELSE 0

\* the quota step and everything after it, for a request that passed validation
Admit(rq) ==
  LET u        == rq.userId
      limit    == Limit(ToBoolean(rq.isPremium))
      q        == RateLimit(rateLimits, u, limit, now)
      fresh    == ~rateLimits[u].present \/ WindowOver(rateLimits[u], now)
      nth      == IF fresh THEN 1 ELSE winAdmits[u] + 1
      cl       == ClearIfLarge(q.table, others)
      cleared  == TooLarge(q.table, others)
      wins     == IF cleared THEN [x \in Users |-> 0] ELSE [winAdmits EXCEPT ![u] = nth]
      seq      == globalRequestNumber + 1
      admitted == [reached |-> TRUE, allowed |-> TRUE, limit |-> limit,
                   count |-> q.table[u].count, nth |-> nth,
                   logged |-> Processed(cl.table[u])]
  IN  IF ~q.allowed
        THEN Outcome("idle",
                     [Json(429, "limited", "none") EXCEPT !.resetIn = q.resetIn],
                     q.table, others, seq,
                     [reached |-> TRUE, allowed |-> FALSE, limit |-> limit,
                      count |-> q.table[u].count, nth |-> 0, logged |-> 1],
                     IF fresh THEN [winAdmits EXCEPT ![u] = 0] ELSE winAdmits, FALSE)
      ELSE IF ~cl.table[u].present
        \* currentLimit is undefined: reading currentLimit.count throws
        THEN Outcome("idle", Json(500, "fail", OuterCatchMsg(variant)),
                     cl.table, cl.others, seq, admitted, wins, FALSE)
      ELSE IF rq.msg \in BlockedMsgs
        THEN Outcome("idle", BlockedReply(variant), cl.table, cl.others, seq, admitted, wins, FALSE)
      ELSE IF ChecksKey(variant) /\ ~apiKey
        THEN Outcome("idle", Json(500, "config", "generic"),
                     cl.table, cl.others, seq, admitted, wins, FALSE)
      ELSE Outcome("upstream", NoResp, cl.table, cl.others, seq, admitted, wins, TRUE)

Handle(rq) ==
  IF rq.method = "OPTIONS" /\ HandlesOptions(variant)
    THEN Untouched(Json(200, "options", "none"))
  ELSE IF rq.method # "POST"
    THEN Untouched(Json(405, "method", "none"))
  ELSE IF ~rq.bodyOk
    THEN Untouched(Json(500, "fail", OuterCatchMsg(variant)))
  ELSE IF MsgFalsy(rq.msg) \/ MsgLength(rq.msg) > MessageLimit(variant)
    THEN Untouched(Json(400, "invalid", "none"))
  ELSE IF rq.userId = NoUser
    THEN Untouched(Json(400, "nouser", "none"))
  ELSE Admit(rq)

\* a request is taken by the first free slot
FreeSlot(r) == pc[r] = "idle" /\ \A q \in Reqs : q < r => pc[q] # "idle"
Quiet == \A r \in Reqs : pc[r] = "idle"

\* The synchronous part of the handler runs on request rq in slot r.
\* A request that ends before the quota step reads and writes nothing that
\* is shared, so it commutes with every step of every other request: it is
\* followed only while no other request is in flight.
Serve(r, rq) ==
  /\ variant \in PerMinuteVariants
  /\ FreeSlot(r)
  /\ \E o \in {Handle(rq)} :
       /\ o.adm.reached \/ Quiet
       /\ pc' = [pc EXCEPT ![r] = o.next]
       /\ IF o.next = "idle"
            THEN /\ last' = Exchange(rq, o.resp, o.adm, [NoUp EXCEPT !.calls = o.calls])
                 /\ UNCHANGED <<req, resp, adm, up>>
            ELSE /\ req' = [req EXCEPT ![r] = rq]
                 /\ resp' = [resp EXCEPT ![r] = o.resp]
                 /\ adm' = [adm EXCEPT ![r] = o.adm]
                 /\ up' = [up EXCEPT ![r] = [NoUp EXCEPT !.calls = o.calls]]
                 /\ last' = NoExchange
       /\ rateLimits' = o.table
       /\ others' = o.others
       /\ globalRequestNumber' = o.seq
       /\ winAdmits' = o.wins
       /\ received' = IF o.adm.reached THEN received + 1 ELSE received
  /\ UNCHANGED <<variant, apiKey, now, userLimits, served>>

\* a request arrives
Receive(r, rq) ==
  /\ received < MaxRequests
  /\ Serve(r, rq)
  /\ UNCHANGED admitLog

\* The clock moves on.
Tick ==
  /\ \E t \in Instants : t > now /\ now' = t
  /\ last' = NoExchange
  /\ UNCHANGED << variant, apiKey, rateLimits, others, globalRequestNumber, received,
                  winAdmits, pc, req, resp, adm, up, userLimits, served, admitLog >>

\* The steps of a request after its upstream call has resolved write nothing
\* that is shared, and while every slot is taken no request is received: the
\* steps of two streams commute, and the model follows one stream at a time.
MayStream(r) == \A q \in Reqs \ {r} : pc[q] # "streaming"

\* the exchange of slot r is complete: the slot is free again
Complete(r, response) ==
  /\ last' = Exchange(req[r], response, adm[r], up[r])
  /\ pc' = [pc EXCEPT ![r] = "idle"]
  /\ req' = [req EXCEPT ![r] = NoRequest]
  /\ resp' = [resp EXCEPT ![r] = NoResp]
  /\ adm' = [adm EXCEPT ![r] = NoAdm]
  /\ up' = [up EXCEPT ![r] = NoUp]

Shared ==
  << variant, apiKey, now, rateLimits, others, globalRequestNumber, received, winAdmits,
     userLimits, served, admitLog >>

\* The shape of what generateContent resolved to: where its text is found
Shapes == {"function", "string", "candidates", "none"}
\* the handlers that look for the text in three places, and throw if it is in none
Extracts(v) == v \in {"bufferedKey", "bufferedLite", "rechunk"}
\* the message of the error the handler's inner catch answers with
InnerCatchMsg(v, raised) == IF v \in {"bufferedKey", "rechunk"} THEN raised ELSE "generic"

\* const currentLimitData = rateLimits.get(userId);
\* const remainingRequests = limit - currentLimitData.count;   (throws when undefined)
\* The JSON answer of a buffered handler whose upstream call resolved.
BufferedAnswer(v, shape, rec, limit) ==
  IF Extracts(v) /\ shape = "none"
    THEN Json(500, "fail", InnerCatchMsg(v, "internal"))
  ELSE IF ~rec.present
    THEN Json(500, "fail", InnerCatchMsg(v, "internal"))
  ELSE [Json(200, "ok", "none") EXCEPT !.remaining = Remaining(limit, rec.count)]

\* The upstream call of a buffered handler resolves.
UpstreamReturns(r, shape) ==
  /\ pc[r] = "upstream"
  /\ variant \in BufferedVariants
  /\ apiKey
  /\ Extracts(variant) \/ shape = "function"
  /\ Complete(r, BufferedAnswer(variant, shape, rateLimits[req[r].userId], adm[r].limit))
  /\ UNCHANGED Shared

\* What the caller gets when the upstream call rejects; detail: the error
\* carries a message.
ThrowAnswer(v, detail) ==
  LET raised == IF detail THEN "upstream" ELSE "generic"
  IN  IF v = "rechunk"
        THEN Stream("stream", <<ErrorFrame(InnerCatchMsg(v, raised)), DoneFrame>>, TRUE)
      ELSE IF v \in EdgeVariants
        THEN Json(500, "fail", "generic")
      ELSE Json(500, "fail", InnerCatchMsg(v, raised))

\* faulty variant: the catch block gives the request's increment back
AfterThrow_RollBack(tbl, u) == [tbl EXCEPT ![u].count = @ - 1]

\* faulty variant: the catch block removes the caller's record
AfterThrow_Delete(tbl, u) == [tbl EXCEPT ![u] = NoRec]

\* the table after the catch block: no catch block writes to rateLimits
AfterThrow(tbl, u) == tbl

\* The upstream call rejects (generateContent or generateContentStream throws).
UpstreamThrows(r, detail) ==
  /\ pc[r] = "upstream"
  /\ variant \in PerMinuteVariants
  /\ Complete(r, ThrowAnswer(variant, detail))
  /\ rateLimits' = AfterThrow(rateLimits, req[r].userId)
  /\ UNCHANGED << variant, apiKey, now, others, globalRequestNumber, received, winAdmits,
                  userLimits, served, admitLog >>

(* ------------------------------------------------------------------ *)
(* Streaming: the re-chunking handler                                   *)
(* ------------------------------------------------------------------ *)
Text(n) == [k \in 1..n |-> k % 10]
\* the texts the upstream call resolves to
Texts == {Text(0), Text(CHUNK_SIZE), Text(CHUNK_SIZE + 1)}

Min(a, b) == IF a < b THEN a ELSE b
\* faulty variant: the slice stops one character early
Slice_Short(text, i, j) == SubSeq(text, i + 1, Min(j - 1, Len(text)))
\* responseText.slice(i, j)
Slice(text, i, j) == SubSeq(text, i + 1, Min(j, Len(text)))

\* One evaluation of the loop condition at index i and what follows it:
\* either one more slice is written and the handler sleeps, or the sentinel
\* is written and the response ended.
SliceStep(r, text, i, frames) ==
  IF i < Len(text)
    THEN /\ resp' = [resp EXCEPT ![r] = Stream("stream", Append(frames, TextFrame(Slice(text, i, i + CHUNK_SIZE))), FALSE)]
         /\ up' = [up EXCEPT ![r] = [@ EXCEPT !.text = text, !.i = i]]
         /\ pc' = [pc EXCEPT ![r] = "streaming"]
         /\ last' = NoExchange
         /\ UNCHANGED <<req, adm>>
    ELSE Complete(r, Stream("stream", Append(frames, DoneFrame), TRUE))

\* generateContent resolves in the re-chunking handler.
TextReturns(r, shape, text) ==
  /\ pc[r] = "upstream"
  /\ MayStream(r)
  /\ variant = "rechunk"
  /\ apiKey
  /\ IF shape = "none"
       THEN Complete(r, Stream("stream", <<ErrorFrame(InnerCatchMsg(variant, "internal")), DoneFrame>>, TRUE))
       ELSE SliceStep(r, text, 0, <<>>)
  /\ UNCHANGED Shared

\* The 10 ms sleep after a slice is over.
SliceTimer(r) ==
  /\ pc[r] = "streaming"
  /\ MayStream(r)
  /\ variant = "rechunk"
  /\ SliceStep(r, up[r].text, up[r].i + CHUNK_SIZE, resp[r].frames)
  /\ UNCHANGED Shared

(* ------------------------------------------------------------------ *)
(* Streaming: the edge handlers                                         *)
(* ------------------------------------------------------------------ *)
\* chunk.text() of a chunk of the upstream stream
ChunkTexts == {<<>>, <<"t">>}

\* generateContentStream resolves: the Response is returned and the
\* stream's start routine runs up to its first await.
StreamOpens(r) ==
  /\ pc[r] = "upstream"
  /\ MayStream(r)
  /\ variant \in EdgeVariants
  /\ apiKey
  /\ pc' = [pc EXCEPT ![r] = "streaming"]
  /\ resp' = [resp EXCEPT ![r] = Stream("stream", <<>>, FALSE)]
  /\ last' = NoExchange
  /\ UNCHANGED <<req, adm, up>>
  /\ UNCHANGED Shared

\* The caller disconnects: the runtime cancels the stream, which is closed
\* from then on (the cancel callback of the second edge handler only logs).
ClientCancels(r) ==
  /\ pc[r] = "streaming"
  /\ MayStream(r)
  /\ variant \in EdgeVariants
  /\ ~up[r].cancelled
  /\ up' = [up EXCEPT ![r].cancelled = TRUE]
  /\ resp' = [resp EXCEPT ![r].ended = TRUE]
  /\ last' = NoExchange
  /\ UNCHANGED <<pc, req, adm>>
  /\ UNCHANGED Shared

\* frames after one chunk: if (chunkText) controller.enqueue(...)
AfterChunk(frames, chunkText) ==
  IF chunkText # <<>> THEN Append(frames, TextFrame(chunkText)) ELSE frames

\* the frames the catch of the start routine adds
CatchFrames(v) ==
  IF v = "edgeStreamTry"
    THEN <<ErrorFrame("generic"), DoneFrame>>
    ELSE <<ErrorFrame("generic")>>

\* faulty variant: the catch enqueues its frames and leaves the stream open
CatchAnswer_Open(v, frames, cancelled) ==
  [Stream("stream", IF cancelled THEN frames ELSE frames \o CatchFrames(v), cancelled)
     EXCEPT !.fault = cancelled]

\* The stream after the catch of the start routine.  On an open stream the
\* frames are enqueued and the stream closed.  On a cancelled stream
\* controller.enqueue throws a TypeError: in the first edge handler it
\* leaves the catch block; in the second the inner try swallows it and the
\* controller.close() that follows throws in its turn.
CatchAnswer(v, frames, cancelled) ==
  IF cancelled
    THEN [Stream("stream", frames, TRUE) EXCEPT !.fault = TRUE]
    ELSE Stream("stream", frames \o CatchFrames(v), TRUE)

\* The upstream stream delivers a chunk; enqueuing its text on a cancelled
\* stream throws into the catch.
NextChunk(r, chunkText) ==
  /\ pc[r] = "streaming"
  /\ MayStream(r)
  /\ variant \in EdgeVariants
  /\ up[r].chunks < MaxChunks
  /\ IF chunkText # <<>> /\ up[r].cancelled
       THEN Complete(r, CatchAnswer(variant, resp[r].frames, TRUE))
       ELSE /\ resp' = [resp EXCEPT ![r].frames = AfterChunk(@, chunkText)]
            /\ up' = [up EXCEPT ![r].chunks = @ + 1]
            /\ last' = NoExchange
            /\ UNCHANGED <<pc, req, adm>>
  /\ UNCHANGED Shared

\* faulty variant: the start routine returns without controller.close()
EndAnswer_Open(v, frames, rec, limit, cancelled) ==
  IF rec.present /\ ~cancelled
    THEN Stream("stream", frames \o <<MetaFrame(Remaining(limit, rec.count)), DoneFrame>>, FALSE)
    ELSE [Stream("stream", frames, TRUE) EXCEPT !.fault = cancelled]

\* The stream after the loop over the chunks has ended: metadata frame and
\* sentinel, or the catch if the record is gone or the stream cancelled.
EndAnswer(v, frames, rec, limit, cancelled) ==
  IF rec.present /\ ~cancelled
    THEN Stream("stream", frames \o <<MetaFrame(Remaining(limit, rec.count)), DoneFrame>>, TRUE)
    ELSE CatchAnswer(v, frames, cancelled)

\* Reading the upstream stream throws.
ChunkThrows(r) ==
  /\ pc[r] = "streaming"
  /\ MayStream(r)
  /\ variant \in EdgeVariants
  /\ Complete(r, CatchAnswer(variant, resp[r].frames, up[r].cancelled))
  /\ UNCHANGED Shared

\* The upstream stream ends.
StreamEnds(r) ==
  /\ pc[r] = "streaming"
  /\ MayStream(r)
  /\ variant \in EdgeVariants
  /\ Complete(r, EndAnswer(variant, resp[r].frames, rateLimits[req[r].userId],
                            adm[r].limit, up[r].cancelled))
  /\ UNCHANGED Shared

Next ==
  \/ Tick
  \/ \E r \in Reqs, rq \in Requests : Receive(r, rq)
  \/ \E r \in Reqs, shape \in Shapes : UpstreamReturns(r, shape)
  \/ \E r \in Reqs, detail \in BOOLEAN : UpstreamThrows(r, detail)
  \/ \E r \in Reqs, shape \in Shapes, text \in Texts : TextReturns(r, shape, text)
  \/ \E r \in Reqs : SliceTimer(r)
  \/ \E r \in Reqs : StreamOpens(r)
  \/ \E r \in Reqs : ClientCancels(r)
  \/ \E r \in Reqs, chunkText \in ChunkTexts : NextChunk(r, chunkText)
  \/ \E r \in Reqs : ChunkThrows(r)
  \/ \E r \in Reqs : StreamEnds(r)

Spec == Init /\ [][Next]_vars

(* ------------------------------------------------------------------ *)
(* A burst: one caller of the standard tier sends request after request *)
(* to the first handler, each after the answer to the one before.  The  *)
(* quota step is the same code; here it is followed over two windows,   *)
(* and the instant of every admission is kept.                          *)
(* ------------------------------------------------------------------ *)
\* requests of a burst: one more than the 2 x FREE_LIMIT two windows admit
MaxBurst == 21
BurstRequest ==
  [method |-> "POST", bodyOk |-> TRUE, msg |-> "plain", userId |-> "u1", isPremium |-> "false"]

BurstInit ==
  /\ variant = "bufferedKey"
  /\ apiKey = TRUE
  /\ now = 0
  /\ rateLimits = EmptyTable
  /\ others = 0
  /\ globalRequestNumber = 0
  /\ winAdmits = [u \in Users |-> 0]
  /\ received = 0
  /\ pc = [r \in Reqs |-> "idle"]
  /\ req = [r \in Reqs |-> NoRequest]
  /\ resp = [r \in Reqs |-> NoResp]
  /\ adm = [r \in Reqs |-> NoAdm]
  /\ up = [r \in Reqs |-> NoUp]
  /\ last = NoExchange
  /\ userLimits = NoLimits
  /\ served = NoLimits
  /\ admitLog = NoLog

\* the next request of the burst arrives
BurstReceive(r) ==
  /\ Quiet
  /\ received < MaxBurst
  /\ Serve(r, BurstRequest)
  /\ \E o \in {Handle(BurstRequest)} :
       admitLog' = IF o.adm.allowed THEN [admitLog EXCEPT ![now] = @ + 1] ELSE admitLog

BurstNext ==
  \/ Tick
  \/ \E r \in Reqs : BurstReceive(r)
  \/ \E r \in Reqs, shape \in Shapes : UpstreamReturns(r, shape)
  \/ \E r \in Reqs, detail \in BOOLEAN : UpstreamThrows(r, detail)

SpecBurst == BurstInit /\ [][BurstNext]_vars

(* ------------------------------------------------------------------ *)
(* The daily-limit handler, src/api/gemini.js lines 5-104: a module of  *)
(* its own, with the Map userLimits from "userId-day" to a count.  One  *)
(* day is followed; the keys of other callers and other days only count *)
(* in the size of the Map (variable others).                            *)
(* ------------------------------------------------------------------ *)
DAILY_LIMIT == 20
DAILY_MSG_LIMIT == 1000

\* userLimits.size : a key is in the Map once a count >= 1 was stored
DailySize(lim, oth) == Cardinality({u \in Users : lim[u] > 0}) + oth

\* the Map when the first request of a behaviour arrives: count is u1's
\* count of today, every one a generated response
DailyHistories ==
  { [count |-> 0, otherKeys |-> 0],
    [count |-> DAILY_LIMIT - 1, otherKeys |-> 0],
    [count |-> 0, otherKeys |-> MAX_ENTRIES] }

DailyInit ==
  /\ variant = "daily"
  /\ apiKey = TRUE
  /\ now = 0
  /\ rateLimits = EmptyTable
  /\ globalRequestNumber = 0
  /\ winAdmits = [u \in Users |-> 0]
  /\ received = 0
  /\ pc = [r \in Reqs |-> "idle"]
  /\ req = [r \in Reqs |-> NoRequest]
  /\ resp = [r \in Reqs |-> NoResp]
  /\ adm = [r \in Reqs |-> NoAdm]
  /\ up = [r \in Reqs |-> NoUp]
  /\ last = NoExchange
  /\ admitLog = NoLog
  /\ \E h \in DailyHistories :
       /\ userLimits = [u \in Users |-> IF u = "u1" THEN h.count ELSE 0]
       /\ served = [u \in Users |-> IF u = "u1" THEN h.count ELSE 0]
       /\ others = h.otherKeys

\* currentCount >= 20
DailyOver(currentCount) == currentCount >= DAILY_LIMIT

\* The handler from its entry to the await on generateContent.  In adm,
\* count is currentCount, the count the request read.
DailyHandle(rq) ==
  LET currentCount == userLimits[rq.userId]
      read == [reached |-> TRUE, allowed |-> TRUE, limit |-> DAILY_LIMIT,
               count |-> currentCount, nth |-> 0, logged |-> 0]
      Ends(response, admission) ==
        [next |-> "idle", resp |-> response, adm |-> admission, calls |-> 0]
  IN  IF rq.method # "POST"
        THEN Ends(Json(405, "method", "none"), NoAdm)
      ELSE IF ~rq.bodyOk
        THEN Ends(Json(500, "fail", "generic"), NoAdm)
      ELSE IF MsgFalsy(rq.msg) \/ MsgLength(rq.msg) > DAILY_MSG_LIMIT
        THEN Ends(Json(400, "invalid", "none"), NoAdm)
      ELSE IF rq.userId = NoUser
        THEN Ends(Json(400, "nouser", "none"), NoAdm)
      ELSE IF DailyOver(currentCount)
        THEN Ends(Json(429, "limited", "none"), [read EXCEPT !.allowed = FALSE])
      ELSE IF rq.msg \in BlockedMsgs
        THEN Ends(BlockedReply(variant), read)
      ELSE [next |-> "upstream", resp |-> NoResp, adm |-> read, calls |-> 1]

\* a request arrives at the daily-limit handler
DailyReceive(r, rq) ==
  /\ variant = "daily"
  /\ FreeSlot(r)
  /\ received < MaxRequests
  /\ \E o \in {DailyHandle(rq)} :
       /\ o.adm.reached \/ Quiet
       /\ pc' = [pc EXCEPT ![r] = o.next]
       /\ IF o.next = "idle"
            THEN /\ last' = Exchange(rq, o.resp, o.adm, NoUp)
                 /\ UNCHANGED <<req, resp, adm, up>>
            ELSE /\ req' = [req EXCEPT ![r] = rq]
                 /\ resp' = [resp EXCEPT ![r] = o.resp]
                 /\ adm' = [adm EXCEPT ![r] = o.adm]
                 /\ up' = [up EXCEPT ![r] = [NoUp EXCEPT !.calls = o.calls]]
                 /\ last' = NoExchange
       /\ received' = IF o.adm.reached THEN received + 1 ELSE received
  /\ UNCHANGED << variant, apiKey, now, rateLimits, others, globalRequestNumber, winAdmits,
                  userLimits, served, admitLog >>

\* generateContent resolves; textOk: result.response.text() returns the text
\* (it throws into the catch otherwise).  The count the request read before
\* the await, plus one, is stored, and the Map cleared if it grew too large.
DailyReturns(r, textOk) ==
  /\ variant = "daily"
  /\ pc[r] = "upstream"
  /\ apiKey
  /\ IF textOk
       THEN \E stored \in {[userLimits EXCEPT ![req[r].userId] = adm[r].count + 1]} :
              /\ userLimits' = IF Exceeds(DailySize(stored, others)) THEN NoLimits ELSE stored
              /\ others' = IF Exceeds(DailySize(stored, others)) THEN 0 ELSE others
              /\ served' = [served EXCEPT ![req[r].userId] = @ + 1]
              /\ Complete(r, [Json(200, "ok", "none")
                                EXCEPT !.remaining = DAILY_LIMIT - (adm[r].count + 1)])
       ELSE /\ Complete(r, Json(500, "fail", "generic"))
            /\ UNCHANGED <<userLimits, others, served>>
  /\ UNCHANGED <<variant, apiKey, now, rateLimits, globalRequestNumber, received, winAdmits, admitLog>>

\* generateContent rejects: the catch answers 500 and stores nothing
DailyThrows(r) ==
  /\ variant = "daily"
  /\ pc[r] = "upstream"
  /\ Complete(r, Json(500, "fail", "generic"))
  /\ UNCHANGED Shared

DailyNext ==
  \/ Tick
  \/ \E r \in Reqs, rq \in Requests : DailyReceive(r, rq)
  \/ \E r \in Reqs, textOk \in BOOLEAN : DailyReturns(r, textOk)
  \/ \E r \in Reqs : DailyThrows(r)

SpecDaily == DailyInit /\ [][DailyNext]_vars

(* ------------------------------------------------------------------ *)
(* Every handler of the repository                                      *)
(* ------------------------------------------------------------------ *)
HandlersInit == Init \/ DailyInit
HandlersNext == Next \/ DailyNext
SpecHandlers == HandlersInit /\ [][HandlersNext]_vars

(* ------------------------------------------------------------------ *)
(* Vocabulary of the properties                                         *)
(* ------------------------------------------------------------------ *)
\* the request passes the pre-flight validation of the deployed handler
PassesValidation(rq) ==
  /\ rq.method = "POST"
  /\ rq.bodyOk
  /\ ~MsgFalsy(rq.msg)
  /\ MsgLength(rq.msg) <= MessageLimit(variant)
  /\ rq.userId # NoUser

\* this step is the synchronous part of the handler run on request rq
Arrival(rq) == \E r \in Reqs : Receive(r, rq)
\* the requests this step may be the arrival of: the one it answered or the
\* one it left waiting for its upstream call
Arriving ==
  {rq \in {last'.req} \cup {req'[r] : r \in {q \in Reqs : pc[q] = "idle"}} : rq.method # "none"}

\* the last step completed an exchange
Completed == last.req.method # "none"

\* The caller and the tier limit of a request.
CallerOf(e) == e.req.userId
\* Admitted, as the specification uses the word: the quota step ran, did not
\* answer 429 and raised no error.
QuotaError(e) == e.adm.allowed /\ e.resp.kind = "fail" /\ e.calls = 0
Admitted(e) == e.adm.allowed /\ ~QuotaError(e)
\* the remainingRequests values an answer carries: the field of the JSON
\* payload, or of the metadata frame of a stream
Reported(e) ==
  IF e.resp.kind = "ok"
    THEN {e.resp.remaining}
    ELSE {e.resp.frames[i].n : i \in {j \in DOMAIN e.resp.frames : e.resp.frames[j].k = "meta"}}
\* max(0, n)
FlooredAtZero(n) == IF n > 0 THEN n ELSE 0
\* the rank a request arriving now has in its caller's window
RankOnArrival(u) ==
  IF ~rateLimits[u].present \/ now >= rateLimits[u].resetTime THEN 1 ELSE winAdmits[u] + 1
\* a and b are the same letter, in whatever case
SameLetter(a, b) ==
  a = b \/ \E i \in 1..Len(Upper) : {a, b} = {Upper[i], Lower[i]}
\* the message contains a phrase of the denylist, in any letter case
CarriesPhrase(m) ==
  LET text == MsgText(m).core
  IN  \E phrase \in BLOCKED_PHRASES :
        \E i \in 0..(Len(text) - Len(phrase)) :
          \A k \in 1..Len(phrase) : SameLetter(text[i + k], phrase[k])
\* the messages that contain a phrase of the denylist
PhraseMsgs == {m \in MsgIds : CarriesPhrase(m)}

\* the answer is a stream of frames, sent to a caller that stayed to the end
Streamed(e) == e.resp.status = 200 /\ e.resp.frames # <<>> /\ ~e.cancelled
\* the positions of the frames of kind k
FramesOf(frames, k) == {i \in DOMAIN frames : frames[i].k = k}

\* the exchanges in progress and the one just completed
Admissions == {adm[r] : r \in Reqs} \cup {last.adm}

(* ------------------------------------------------------------------ *)
(* C1                                                                   *)
(* ------------------------------------------------------------------ *)
\* C1: in every window of every caller (from the creation or reset of the
\* caller's record until its resetTime) the number of admitted requests
\* stays within the limit: a request admitted as the n-th of its window has
\* n <= the limit of its tier (10 standard, 100 elevated), and no window
\* holds more than 100 admissions.
C1_AdmittedWithinLimit ==
  /\ \A a \in Admissions : a.allowed => a.nth <= a.limit
  /\ \A u \in Users : winAdmits[u] <= PREMIUM_LIMIT

\* a standard caller's 10th request of a window has just been admitted
C1_Witness ==
  /\ Completed
  /\ last.adm.allowed
  /\ last.adm.limit = FREE_LIMIT
  /\ last.adm.nth = FREE_LIMIT
  /\ rateLimits[last.req.userId].count = FREE_LIMIT

(* ------------------------------------------------------------------ *)
(* C2                                                                   *)
(* ------------------------------------------------------------------ *)
\* C2: a valid request of a caller that has no record is always admitted,
\* whatever the table holds (10,000 other callers included): the step is
\* answered neither 429 nor with an error, and it leaves the caller a
\* record with count = 1 and resetTime = now + 60000; and a success that
\* is reported to the first and only request of the window carries
\* remainingRequests = limit - 1.
C2_FirstRequestAdmitted ==
  /\ [][\A rq \in Arriving :
          (PassesValidation(rq) /\ ~rateLimits[rq.userId].present /\ Arrival(rq))
          => ( /\ last'.resp.status # 429
               /\ last'.resp.kind # "fail"
               /\ rateLimits'[rq.userId] = [present |-> TRUE, count |-> 1, resetTime |-> now + RESET_INTERVAL] )]_vars
  /\ [](\A n \in Reported(last) :
          (last.adm.nth = 1 /\ winAdmits[CallerOf(last)] = 1) => n = last.adm.limit - 1)

\* the first request of a caller has just been answered 500 by the quota
\* step, which emptied the table: the caller has no record
C2_Witness ==
  /\ Completed
  /\ QuotaError(last)
  /\ last.adm.nth = 1
  /\ last.resp.status = 500
  /\ ~rateLimits[CallerOf(last)].present
  /\ others = 0

(* ------------------------------------------------------------------ *)
(* C3                                                                   *)
(* ------------------------------------------------------------------ *)
\* C3: of the valid requests a caller sends one after another inside one
\* window, the k-th (1 <= k <= limit of its tier) is admitted (neither 429
\* nor an error of the quota step, and the count becomes k) and a success
\* reported to it carries remainingRequests = limit - k; a request beyond
\* the limit is answered 429 with resetIn >= 1.
C3_KthRequest ==
  /\ [][\A rq \in Arriving :
          (PassesValidation(rq) /\ Arrival(rq))
          => LET u     == rq.userId
                 limit == IF rq.isPremium = "true" THEN PREMIUM_LIMIT ELSE FREE_LIMIT
                 k     == RankOnArrival(u)
             IN  IF k <= limit
                   THEN /\ last'.resp.status # 429
                        /\ last'.resp.kind # "fail"
                        /\ rateLimits'[u].count = k
                   ELSE /\ last'.resp.status = 429
                        /\ last'.resp.resetIn >= 1]_vars
  /\ [](\A n \in Reported(last) :
          winAdmits[CallerOf(last)] = last.adm.nth => n = last.adm.limit - last.adm.nth)

(* ------------------------------------------------------------------ *)
(* C4                                                                   *)
(* ------------------------------------------------------------------ *)
\* C4: a step that answers 429 leaves the whole table as it was: the
\* caller's count and resetTime and every other record.
C4_RejectionLeavesTable ==
  [][last'.resp.status = 429 => (rateLimits' = rateLimits /\ others' = others)]_vars

\* a request has just been rejected, the caller's count being at the limit
C4_Witness ==
  /\ Completed
  /\ last.resp.status = 429
  /\ rateLimits[last.req.userId].count >= last.adm.limit

(* ------------------------------------------------------------------ *)
(* C5                                                                   *)
(* ------------------------------------------------------------------ *)
\* C5: a valid request of a caller whose record has now >= resetTime is
\* admitted whatever the old count was (it is not answered 429, and the
\* quota step raises no error), and leaves the record with count = 1 and
\* resetTime = now + 60000.
C5_ExpiredWindowRestarts ==
  [][\A rq \in Arriving :
       ( /\ PassesValidation(rq)
         /\ rateLimits[rq.userId].present
         /\ now >= rateLimits[rq.userId].resetTime
         /\ Arrival(rq) )
       => ( /\ rateLimits'[rq.userId] = [present |-> TRUE, count |-> 1, resetTime |-> now + RESET_INTERVAL]
            /\ last'.resp.status # 429
            /\ last'.resp.kind # "fail" )]_vars

\* u1, whose record held count 9 of a window that is over, has just been
\* admitted and its window restarted
C5_Witness ==
  /\ Completed
  /\ CallerOf(last) = "u1"
  /\ globalRequestNumber = FREE_LIMIT
  /\ others = 0
  /\ last.adm.allowed
  /\ last.adm.nth = 1
  /\ now >= RESET_INTERVAL
  /\ rateLimits[last.req.userId] = [present |-> TRUE, count |-> 1, resetTime |-> now + RESET_INTERVAL]

(* ------------------------------------------------------------------ *)
(* C6                                                                   *)
(* ------------------------------------------------------------------ *)
\* C6: whatever other requests are in flight, the remainingRequests that
\* a success reports is max(0, limit - c), c being the caller's count right
\* after the increment the quota step made for this very request.
C6_RemainingAfterOwnIncrement ==
  \A n \in Reported(last) : n = FlooredAtZero(last.adm.limit - last.adm.count)

\* a success has just reported one less than the count of its own
\* increment leaves: a later request of the caller was admitted meanwhile
C6_Witness ==
  /\ Completed
  /\ last.resp.kind = "ok"
  /\ last.resp.remaining = last.adm.limit - last.adm.count - 1

(* ------------------------------------------------------------------ *)
(* C7                                                                   *)
(* ------------------------------------------------------------------ *)
\* C7: a POST whose body has no userMessage, a userMessage of more than
\* 2000 characters or no userId is answered 400; the quota step does not
\* run and no upstream call is started: the table, the log sequence
\* counter and the requests in flight are as before, and the caller has
\* no more of a record than before.
C7_ValidationFailureTouchesNothing ==
  [][\A rq \in Arriving :
       ( /\ rq.method = "POST"
         /\ rq.bodyOk
         /\ MsgText(rq.msg).absent \/ MsgLength(rq.msg) > MSG_LIMIT \/ rq.userId = NoUser
         /\ Arrival(rq) )
       => ( /\ last'.resp.status = 400
            /\ ~last'.adm.reached
            /\ last'.calls = 0
            /\ UNCHANGED <<rateLimits, others, globalRequestNumber, pc, up>> )]_vars

\* a 2001-character message has just been answered 400 and its caller has no record
C7_Witness ==
  /\ Completed
  /\ last.req.msg = "len2001"
  /\ last.resp.status = 400
  /\ ~rateLimits[last.req.userId].present

(* ------------------------------------------------------------------ *)
(* C8                                                                   *)
(* ------------------------------------------------------------------ *)
\* C8: an admitted request whose message contains a denylisted phrase, in
\* any letter case, is answered with the canned reply, starts no upstream
\* call, and leaves the caller's count incremented.
C8_BlockedPhrase ==
  (Completed /\ last.req.msg \in PhraseMsgs /\ Admitted(last))
  => ( /\ last.resp.kind = "blocked"
       /\ last.resp.status = 200
       /\ last.resp.frames \in {<<>>, <<TextFrame(CANNED), DoneFrame>>}
       /\ last.calls = 0
       /\ rateLimits[CallerOf(last)].present
       /\ rateLimits[CallerOf(last)].count = last.adm.nth )

\* a message with the phrase in mixed case has just got the canned reply
C8_Witness ==
  /\ Completed
  /\ last.req.msg = "mixedCase"
  /\ last.resp.kind = "blocked"
  /\ rateLimits[CallerOf(last)].count = FREE_LIMIT

(* ------------------------------------------------------------------ *)
(* C9                                                                   *)
(* ------------------------------------------------------------------ *)
\* C9: in the buffered handlers, when the upstream call of an admitted
\* request throws, the caller gets status 500 with an error payload, and
\* the table is as it was: the count keeps the increment of the request.
C9_UpstreamThrowKeepsCount ==
  [][\A r \in Reqs :
       ( /\ variant \in BufferedVariants
         /\ pc[r] = "upstream"
         /\ \E detail \in BOOLEAN : UpstreamThrows(r, detail) )
       => ( /\ last'.resp.status = 500
            /\ last'.resp.kind = "fail"
            /\ last'.resp.msg # "none"
            /\ last'.adm.allowed
            /\ rateLimits' = rateLimits )]_vars

\* a buffered handler has just answered 500 to a request whose upstream
\* call was started, and the caller's count still holds its increment
C9_Witness ==
  /\ Completed
  /\ variant \in BufferedVariants
  /\ last.calls = 1
  /\ last.resp.status = 500
  /\ last.resp.msg = "upstream"
  /\ rateLimits[CallerOf(last)].count = last.adm.count

(* ------------------------------------------------------------------ *)
(* C10                                                                  *)
(* ------------------------------------------------------------------ *)
\* C10: in the streaming handlers, when the upstream call of an admitted
\* request fails, at its start or while its chunks are read, the answer is
\* a stream whose last two frames are an error frame and the sentinel.
C10_ErrorThenSentinel ==
  [][\A r \in Reqs :
       ( /\ variant \in StreamingVariants
         /\ (\E detail \in BOOLEAN : UpstreamThrows(r, detail)) \/ ChunkThrows(r) )
       => LET frames == last'.resp.frames
              n      == Len(frames)
          IN  /\ n >= 2
              /\ frames[n - 1].k = "error"
              /\ frames[n].k = "done"]_vars

\* a stream has just been closed right after an error frame, without sentinel
C10_Witness ==
  /\ Completed
  /\ last.resp.kind = "stream"
  /\ last.resp.ended
  /\ Len(last.resp.frames) >= 1
  /\ last.resp.frames[Len(last.resp.frames)].k = "error"

(* ------------------------------------------------------------------ *)
(* C11                                                                  *)
(* ------------------------------------------------------------------ *)
\* C11: every streamed response, whether it carries the generated text,
\* the canned reply or an upstream failure, holds exactly one sentinel
\* frame, which is its last frame, and at most one metadata frame.
C11_OneSentinelLast ==
  (Completed /\ Streamed(last))
  => LET frames == last.resp.frames
     IN  /\ Cardinality(FramesOf(frames, "done")) = 1
         /\ frames[Len(frames)].k = "done"
         /\ Cardinality(FramesOf(frames, "meta")) <= 1

\* a streamed response has just ended that holds no sentinel frame
C11_Witness ==
  /\ Completed
  /\ Streamed(last)
  /\ last.resp.ended
  /\ FramesOf(last.resp.frames, "done") = {}

(* ------------------------------------------------------------------ *)
(* C12                                                                  *)
(* ------------------------------------------------------------------ *)
\* this step ends the stream of slot r after the upstream generation succeeded
GenerationSucceeds(r) ==
  /\ pc[r] \in {"upstream", "streaming"}
  /\ ~up[r].cancelled
  /\ pc'[r] = "idle"
  /\ \/ StreamEnds(r)
     \/ SliceTimer(r)
     \/ \E shape \in Shapes \ {"none"}, text \in Texts : TextReturns(r, shape, text)

\* C12: a streamed response whose upstream generation succeeded is made of
\* text frames only, then one metadata frame that carries the caller's
\* remaining quota, then one sentinel frame, which is the last frame.
C12_TextMetaSentinel ==
  [][\A r \in Reqs :
       GenerationSucceeds(r)
       => LET frames == last'.resp.frames
              n      == Len(frames)
              u      == last'.req.userId
          IN  /\ n >= 2
              /\ \A i \in 1..(n - 2) : frames[i].k = "text"
              /\ frames[n - 1].k = "meta"
              /\ frames[n - 1].n = FlooredAtZero(last'.adm.limit - rateLimits[u].count)
              /\ frames[n].k = "done"]_vars

\* a stream of text frames has just ended with the sentinel and no metadata frame
C12_Witness ==
  /\ Completed
  /\ Streamed(last)
  /\ last.calls = 1
  /\ FramesOf(last.resp.frames, "text") # {}
  /\ FramesOf(last.resp.frames, "error") = {}
  /\ FramesOf(last.resp.frames, "meta") = {}

(* ------------------------------------------------------------------ *)
(* C13                                                                  *)
(* ------------------------------------------------------------------ *)
\* C13: in a streamed response that holds an error frame, no text frame
\* and no metadata frame comes before the error frame, and the last frame
\* is the sentinel.
C13_ErrorReplacesText ==
  (Completed /\ Streamed(last))
  => LET frames == last.resp.frames
     IN  \A e \in FramesOf(frames, "error") :
           /\ \A i \in 1..(e - 1) : frames[i].k \notin {"text", "meta"}
           /\ frames[Len(frames)].k = "done"

\* a stream has just ended as text frame, error frame, sentinel
C13_Witness ==
  /\ Completed
  /\ Streamed(last)
  /\ Len(last.resp.frames) = 3
  /\ last.resp.frames[1].k = "text"
  /\ last.resp.frames[2].k = "error"
  /\ last.resp.frames[3].k = "done"

(* ------------------------------------------------------------------ *)
(* C14                                                                  *)
(* ------------------------------------------------------------------ *)
\* the POST has no userMessage, one of more than 2000 characters, or no userId
FailsValidation(rq) ==
  /\ rq.method = "POST"
  /\ rq.bodyOk
  /\ MsgText(rq.msg).absent \/ MsgLength(rq.msg) > MSG_LIMIT \/ rq.userId = NoUser

\* C14: in the streaming handlers a request that fails the pre-flight
\* validation is answered through the frame protocol, with an error frame
\* followed by the sentinel, and not with a JSON payload under a status code.
C14_ValidationFailureAsFrames ==
  (Completed /\ variant \in StreamingVariants /\ FailsValidation(last.req))
  => /\ Streamed(last)
     /\ Len(last.resp.frames) = 2
     /\ last.resp.frames[1].k = "error"
     /\ last.resp.frames[2].k = "done"

\* a streaming handler has just answered a 2001-character message with a
\* JSON payload under status 400
C14_Witness ==
  /\ Completed
  /\ variant \in StreamingVariants
  /\ last.req.msg = "len2001"
  /\ last.resp.status = 400
  /\ last.resp.frames = <<>>

(* ------------------------------------------------------------------ *)
(* C15                                                                  *)
(* ------------------------------------------------------------------ *)
\* C15: the quota step of a valid request ends in allow or in deny, from
\* every table, the one that the caller's record brings above 10,000
\* entries included: an exchange that the synchronous part of the handler
\* completed after its quota step ran is never an error answer.
C15_QuotaStepNeverFails ==
  (Completed /\ last.adm.reached /\ last.calls = 0)
  => /\ last.resp.kind # "fail"
     /\ last.adm.allowed <=> last.resp.status # 429

\* the quota step has just emptied a table of 10,001 entries and the
\* request was answered 500
C15_Witness ==
  /\ Completed
  /\ last.adm.reached
  /\ last.resp.kind = "fail"
  /\ TableSize(rateLimits, others) = 0
  /\ globalRequestNumber = MAX_ENTRIES + 1

(* ------------------------------------------------------------------ *)
(* C16                                                                  *)
(* ------------------------------------------------------------------ *)
\* C16: with requests interleaved at their awaits, the lookup, reset,
\* check and increment of a request run as one step, so no increment is
\* lost to a stale read: the count of every record is the number of
\* requests admitted in its window, and the count every admitted request
\* left is its own rank in the window, which is within the limit.
C16_QuotaStepAtomic ==
  /\ \A u \in Users : rateLimits[u].present => rateLimits[u].count = winAdmits[u]
  /\ \A a \in Admissions : a.allowed => (a.count = a.nth /\ a.count <= a.limit)

\* a request of a caller has just been rejected while another request of
\* the same caller and tier, which took the last place of the window, is
\* still waiting for its upstream call
C16_Witness ==
  /\ Completed
  /\ last.resp.status = 429
  /\ \E r \in Reqs :
       /\ pc[r] = "upstream"
       /\ req[r].userId = CallerOf(last)
       /\ adm[r].limit = last.adm.limit
       /\ adm[r].nth = adm[r].limit

(* ------------------------------------------------------------------ *)
(* C17                                                                  *)
(* ------------------------------------------------------------------ *)
\* C17: once the caller of a streamed response has gone, no step adds a
\* frame to the response, and the start routine of the stream ends without
\* an exception leaving it.
C17_CancelledStreamEndsQuietly ==
  [][\A r \in Reqs :
       up[r].cancelled
       => IF pc'[r] = "idle"
            THEN last'.resp.frames = resp[r].frames /\ ~last'.resp.fault
            ELSE resp'[r].frames = resp[r].frames]_vars

\* the start routine of a cancelled stream has just ended with an exception
C17_Witness ==
  /\ Completed
  /\ last.cancelled
  /\ last.resp.fault

(* ------------------------------------------------------------------ *)
(* C18                                                                  *)
(* ------------------------------------------------------------------ *)
\* C18: in the streaming handlers, the step in which the upstream call or
\* the upstream stream fails leaves the response closed, whether the error
\* frame could be enqueued or not.
C18_FailureClosesStream ==
  [][\A r \in Reqs :
       ( /\ variant \in StreamingVariants
         /\ pc[r] # "idle"
         /\ (\E detail \in BOOLEAN : UpstreamThrows(r, detail)) \/ ChunkThrows(r) )
       => last'.resp.ended]_vars

\* a stream whose caller had gone has just ended closed, without error frame
C18_Witness ==
  /\ Completed
  /\ last.cancelled
  /\ last.resp.ended
  /\ FramesOf(last.resp.frames, "error") = {}

(* ------------------------------------------------------------------ *)
(* C19                                                                  *)
(* ------------------------------------------------------------------ *)
\* C19: without the upstream credential, a request that reaches the
\* generation step (admitted, message not blocked) is answered 500 with
\* the generic configuration message, and no upstream call is started.
C19_NoCredentialNoCall ==
  (Completed /\ ~apiKey /\ last.req.msg \notin PhraseMsgs /\ Admitted(last))
  => /\ last.resp.status = 500
     /\ last.resp.kind = "config"
     /\ last.resp.msg = "generic"
     /\ last.calls = 0

\* without the credential, a request whose upstream call was started has
\* just been answered
C19_Witness ==
  /\ Completed
  /\ ~apiKey
  /\ last.calls = 1
  /\ last.resp.kind # "config"

(* ------------------------------------------------------------------ *)
(* C20                                                                  *)
(* ------------------------------------------------------------------ *)
\* C20: whatever error the upstream call raises, neither the message of
\* the 500 payload nor the message of an error frame is the message of
\* that error: the caller only ever reads a fixed text.
C20_NoUpstreamDetail ==
  Completed
  => /\ last.resp.msg # "upstream"
     /\ \A i \in FramesOf(last.resp.frames, "error") : last.resp.frames[i].m # "upstream"

\* a stream has just ended whose error frame carries the message of the
\* upstream error
C20_Witness ==
  /\ Completed
  /\ last.calls = 1
  /\ \E i \in FramesOf(last.resp.frames, "error") : last.resp.frames[i].m = "upstream"

(* ------------------------------------------------------------------ *)
(* C21                                                                  *)
(* ------------------------------------------------------------------ *)
\* C21: when a request has just been rejected, the count of the rejected
\* caller's record is at most the limit of the tier the rejected request
\* gave, whatever tier the caller's earlier requests gave.
C21_CountWithinTierAfterRejection ==
  (Completed /\ last.resp.status = 429)
  => rateLimits[CallerOf(last)].count <= last.adm.limit

\* a request under the standard tier has just been rejected for a caller
\* whose record, filled under the elevated tier, counts 99
C21_Witness ==
  /\ Completed
  /\ last.resp.status = 429
  /\ last.adm.limit = FREE_LIMIT
  /\ rateLimits[CallerOf(last)].count = PREMIUM_LIMIT - 1
  /\ last.resp.resetIn >= 1

(* ------------------------------------------------------------------ *)
(* C22                                                                  *)
(* ------------------------------------------------------------------ *)
RECURSIVE SumLog(_, _)
SumLog(log, S) ==
  IF S = {} THEN 0
  ELSE LET t == CHOOSE x \in S : TRUE IN log[t] + SumLog(log, S \ {t})
\* admissions of the caller from instant a to instant b, both included
SpanAdmissions(a, b) == SumLog(admitLog, {t \in Instants : a <= t /\ t <= b})

\* C22, as corrected: for a caller of a fixed tier and with no table-wide
\* clear, a span of at most 60 seconds holds at most 2 x limit admissions,
\* and a span shorter than 60 seconds at most 2 x limit - 1: the first
\* admission of a window is the one that opens it, so that 2 x limit
\* admissions take a span of a whole window.
C22_SpanBound ==
  \A a \in Instants, b \in Instants :
    /\ (a <= b /\ b - a <= RESET_INTERVAL) => SpanAdmissions(a, b) <= 2 * FREE_LIMIT
    /\ (a <= b /\ b - a < RESET_INTERVAL) => SpanAdmissions(a, b) <= 2 * FREE_LIMIT - 1

\* 19 admissions lie in the two milliseconds on either side of the window
\* boundary, and 20 in the span of 60,000 ms from the first admission
C22_Witness ==
  /\ SpanAdmissions(RESET_INTERVAL - 1, RESET_INTERVAL) = 2 * FREE_LIMIT - 1
  /\ SpanAdmissions(0, RESET_INTERVAL) = 2 * FREE_LIMIT
  /\ rateLimits["u1"].count = FREE_LIMIT

\* C22, as stated: a span of at most 60 seconds holds at most 2 x limit
\* admissions, and 2 x limit admissions are reached in a span shorter
\* than the window: the request that arrives when such a span, ending
\* now, holds 2 x limit - 1 admissions is admitted.
C22_TwiceLimitInShortSpan ==
  /\ [](\A a \in Instants, b \in Instants :
          (a <= b /\ b - a <= RESET_INTERVAL) => SpanAdmissions(a, b) <= 2 * FREE_LIMIT)
  /\ [][\A r \in Reqs :
          ( /\ \E a \in Instants :
                 /\ a <= now
                 /\ now - a < RESET_INTERVAL
                 /\ SpanAdmissions(a, now) = 2 * FREE_LIMIT - 1
            /\ BurstReceive(r) )
          => admitLog'[now] = admitLog[now] + 1]_vars

(* ------------------------------------------------------------------ *)
(* C23                                                                  *)
(* ------------------------------------------------------------------ *)
\* C23: the resetIn of a rejection is the number of milliseconds left in
\* the window of the caller's record, in seconds and rounded up (the least
\* whole number of seconds that is not less), and it lies between 1 and 60.
C23_ResetInSeconds ==
  (Completed /\ last.resp.status = 429)
  => LET left == rateLimits[CallerOf(last)].resetTime - now
         resetIn == last.resp.resetIn
     IN  /\ rateLimits[CallerOf(last)].present
         /\ resetIn \in 1..(RESET_INTERVAL \div MS_PER_SECOND)
         /\ resetIn * MS_PER_SECOND >= left
         /\ (resetIn - 1) * MS_PER_SECOND < left

\* a request has just been rejected one millisecond before the end of the
\* window: resetIn is 1
C23_Witness ==
  /\ Completed
  /\ last.resp.status = 429
  /\ rateLimits[CallerOf(last)].resetTime - now = 1
  /\ last.resp.resetIn = 1

(* ------------------------------------------------------------------ *)
(* C24                                                                  *)
(* ------------------------------------------------------------------ *)
\* the size of the Map of the deployed handler
MapSize ==
  IF variant = "daily" THEN DailySize(userLimits, others) ELSE TableSize(rateLimits, others)
\* this step runs the code that adds an entry to the Map for a caller that
\* has none: the quota step of a per-minute handler on a valid request, or
\* the code after the upstream call of the daily-limit handler
AddsEntry ==
  \/ \E rq \in Arriving :
       PassesValidation(rq) /\ ~rateLimits[rq.userId].present /\ Arrival(rq)
  \/ \E r \in Reqs :
       /\ variant = "daily"
       /\ pc[r] = "upstream"
       /\ userLimits[req[r].userId] = 0
       /\ DailyReturns(r, TRUE)

\* C24: between the steps of the handlers the Map holds at most 10,000
\* entries, and the step that adds an entry to a Map of 10,000 leaves the
\* Map empty: the clear happens in the request that passed the threshold.
C24_ClearKeepsTableBounded ==
  /\ [](MapSize <= MAX_ENTRIES)
  /\ [][(MapSize = MAX_ENTRIES /\ AddsEntry) => MapSize' = 0]_vars

\* the daily-limit handler has just stored the count of a caller as entry
\* 10,001 and cleared the Map
C24_Witness ==
  /\ Completed
  /\ variant = "daily"
  /\ last.resp.kind = "ok"
  /\ served[CallerOf(last)] = 1
  /\ MapSize = 0

(* ------------------------------------------------------------------ *)
(* C25                                                                  *)
(* ------------------------------------------------------------------ *)
\* C25: every request that reached the quota step, admitted or rejected,
\* wrote exactly one structured log record; and the requestNumber of the
\* record a request writes, which is the counter after its step, is
\* greater than the counter before it, so greater than the number of
\* every record written earlier.
C25_OneLogRecordEach ==
  /\ [](\A a \in Admissions : a.reached => a.logged = 1)
  /\ [][\A rq \in Arriving :
          (PassesValidation(rq) /\ Arrival(rq))
          => globalRequestNumber' = globalRequestNumber + 1]_vars

\* a request that reached the quota step has just been answered without
\* having written a log record, though the counter was incremented for it
C25_Witness ==
  /\ Completed
  /\ last.adm.reached
  /\ last.adm.logged = 0
  /\ globalRequestNumber = MAX_ENTRIES + 1
  /\ last.resp.status = 500

(* ------------------------------------------------------------------ *)
(* C26                                                                  *)
(* ------------------------------------------------------------------ *)
\* C26: a request whose method is not POST is answered in the step it
\* arrives in, 200 if the method is OPTIONS and 405 otherwise, and that
\* step starts no upstream call and leaves the quota table and the log
\* sequence counter as they were.
C26_OnlyPostProcessed ==
  [][\A rq \in Arriving :
       (rq.method # "POST" /\ Arrival(rq))
       => /\ last'.req = rq
          /\ last'.resp.status = (IF rq.method = "OPTIONS" THEN 200 ELSE 405)
          /\ last'.calls = 0
          /\ UNCHANGED <<rateLimits, others, globalRequestNumber, pc, up>>]_vars

\* an OPTIONS request has just been answered 405
C26_Witness ==
  /\ Completed
  /\ last.req.method = "OPTIONS"
  /\ last.resp.status = 405
  /\ last.resp.kind = "method"

(* ------------------------------------------------------------------ *)
(* C27                                                                  *)
(* ------------------------------------------------------------------ *)
\* the stages a request went through before its upstream call: it passed
\* the validation, the quota step admitted it, the filter let it through
ClearedForUpstream(rq, admission) ==
  /\ PassesValidation(rq)
  /\ admission.reached
  /\ admission.allowed
  /\ rq.msg \notin PhraseMsgs

\* C27: validation comes before the quota step, the quota step before the
\* filter, the filter before the upstream call.  A request has at most one
\* upstream call, and has one only if it passed the validation, was
\* admitted by the quota step and carries no blocked phrase; only a valid
\* request reaches the quota step, only an admitted one gets the canned
\* reply; an answer of 400, 429 or the canned reply comes with no call.
C27_StagesInOrder ==
  /\ \A r \in Reqs :
       pc[r] # "idle" => (up[r].calls = 1 /\ ClearedForUpstream(req[r], adm[r]))
  /\ Completed =>
       /\ last.calls \in {0, 1}
       /\ last.calls = 1 => ClearedForUpstream(last.req, last.adm)
       /\ last.adm.reached => PassesValidation(last.req)
       /\ last.resp.kind = "blocked" => last.adm.allowed
       /\ (last.resp.status \in {400, 429} \/ last.resp.kind = "blocked") => last.calls = 0

\* a message with a blocked phrase, sent by a caller whose window is full,
\* has just been answered 429 and not with the canned reply
C27_Witness ==
  /\ Completed
  /\ last.req.msg \in PhraseMsgs
  /\ PassesValidation(last.req)
  /\ last.resp.status = 429
  /\ last.calls = 0

(* ------------------------------------------------------------------ *)
(* C28                                                                  *)
(* ------------------------------------------------------------------ *)
RECURSIVE Joined(_)
\* the texts of a sequence of text frames, one after the other
Joined(frames) ==
  IF frames = <<>> THEN <<>> ELSE Head(frames).t \o Joined(Tail(frames))
\* ceil(n / CHUNK_SIZE)
SlicesOf(n) == (n + CHUNK_SIZE - 1) \div CHUNK_SIZE
\* this step of the re-chunking handler ends the response of slot r after
\* the whole of up[r].text was sent (a response that ends in the step in
\* which its text arrives has the empty text)
RechunkSucceeds(r) ==
  /\ variant = "rechunk"
  /\ pc[r] \in {"upstream", "streaming"}
  /\ pc'[r] = "idle"
  /\ FramesOf(last'.resp.frames, "error") = {}

\* C28: in the re-chunking handler the frames written are never taken
\* back or reordered, and the response of a successful generation is
\* ceil(length / 20) text frames followed by the sentinel: every text frame
\* but the last holds exactly 20 characters, the last between 1 and 20, and
\* joined in order they are the upstream text.
C28_SlicesRebuildText ==
  [][\A r \in Reqs :
       /\ (variant = "rechunk" /\ pc[r] = "streaming" /\ pc'[r] = "streaming")
          => SubSeq(resp'[r].frames, 1, Len(resp[r].frames)) = resp[r].frames
       /\ RechunkSucceeds(r)
          => LET frames == last'.resp.frames
                 n      == Len(frames) - 1
                 texts  == SubSeq(frames, 1, n)
             IN  /\ n = SlicesOf(Len(up[r].text))
                 /\ frames[n + 1] = DoneFrame
                 /\ last'.resp.ended
                 /\ texts = SubSeq(resp[r].frames, 1, n)
                 /\ \A i \in 1..n :
                      /\ frames[i].k = "text"
                      /\ Len(frames[i].t) \in 1..CHUNK_SIZE
                      /\ i < n => Len(frames[i].t) = CHUNK_SIZE
                 /\ Joined(texts) = up[r].text]_vars

\* a text of 21 characters has just been sent as a frame of 20, a frame
\* of 1 and the sentinel
C28_Witness ==
  /\ Completed
  /\ variant = "rechunk"
  /\ Len(last.resp.frames) = 3
  /\ Len(last.resp.frames[1].t) = CHUNK_SIZE
  /\ Len(last.resp.frames[2].t) = 1
  /\ last.resp.frames[3] = DoneFrame

(* ------------------------------------------------------------------ *)
(* C29                                                                  *)
(* ------------------------------------------------------------------ *)
\* C29: in the daily-limit handler, with requests in flight together, the
\* count stored for a caller's day is the number of generated responses
\* the caller was sent that day, that number never passes 20, and a valid
\* request that arrives when the count is 20 is answered 429.
C29_DailyLimitHolds ==
  /\ [](\A u \in Users : served[u] <= DAILY_LIMIT /\ userLimits[u] = served[u])
  /\ [][\A rq \in Arriving, r \in Reqs :
          (rq.userId # NoUser /\ DailyReceive(r, rq) /\ last'.adm.reached
             /\ userLimits[rq.userId] = DAILY_LIMIT)
          => last'.resp.status = 429]_vars

\* a caller has just been sent the 21st generated response of the day,
\* and the stored count is 20
C29_Witness ==
  /\ Completed
  /\ last.resp.kind = "ok"
  /\ served[CallerOf(last)] = DAILY_LIMIT + 1
  /\ userLimits[CallerOf(last)] = DAILY_LIMIT
  /\ last.resp.remaining = 0

(* ------------------------------------------------------------------ *)
(* C30                                                                  *)
(* ------------------------------------------------------------------ *)
\* this step runs the code that reads the record of the caller of slot r
\* after the upstream call: the text was extracted from what generateContent
\* resolved to, or the loop over the upstream stream has ended
ReadsAfterUpstream(r) ==
  /\ pc[r] # "idle"
  /\ \/ StreamEnds(r)
     \/ \E shape \in Shapes :
          ~(Extracts(variant) /\ shape = "none") /\ UpstreamReturns(r, shape)

\* C30: the record of the requesting caller is in the table each time the
\* handler reads it after the quota step: when the step of an admitted
\* request writes its REQUEST_PROCESSED record, and when the remaining
\* quota is computed after the upstream call or stream.
C30_RecordPresentWhenRead ==
  [][/\ \A rq \in Arriving :
          (PassesValidation(rq) /\ Arrival(rq) /\ last'.resp.status # 429)
          => rateLimits'[rq.userId].present
     /\ \A r \in Reqs :
          ReadsAfterUpstream(r) => rateLimits[req[r].userId].present]_vars

\* a request whose upstream call succeeded has just been answered 500:
\* while it waited, the request of another caller cleared the table
C30_Witness ==
  /\ Completed
  /\ last.calls = 1
  /\ last.adm.allowed
  /\ last.resp.status = 500
  /\ last.resp.kind = "fail"
  /\ ~rateLimits[CallerOf(last)].present
  /\ globalRequestNumber = MAX_ENTRIES + 2

(* ------------------------------------------------------------------ *)
(* C31                                                                  *)
(* ------------------------------------------------------------------ *)
\* the request of caller a makes the Map exceed 10,000 entries, and this
\* step leaves the Map empty
ClearsWholeTable(a) ==
  /\ TableSize(rateLimits, others) = MAX_ENTRIES
  /\ ~rateLimits[a].present
  /\ rateLimits' = EmptyTable
  /\ others' = 0

\* the records of every caller but a are after this step what they were
OtherRecordsKept(a) ==
  /\ \A b \in Users \ {a} : rateLimits'[b] = rateLimits[b]
  /\ others' = others

\* slot r holds a request in flight and this step is a step of it
StepOf(r) ==
  /\ pc[r] # "idle"
  /\ pc'[r] # pc[r] \/ resp'[r] # resp[r] \/ up'[r] # up[r]

\* C31: a request of caller A never creates, changes or removes the record
\* of another caller B, in its synchronous part or in a later step, unless
\* it makes the table exceed 10,000 entries and the whole table is cleared.
C31_OtherRecordsUntouched ==
  [][/\ \A rq \in Arriving :
          OtherRecordsKept(rq.userId) \/ ClearsWholeTable(rq.userId) \/ ~Arrival(rq)
     /\ \A r \in Reqs :
          StepOf(r) => OtherRecordsKept(req[r].userId)]_vars

\* the only request so far was u2's and was admitted, and the record u1 had
\* before it is as it was
C31_Witness ==
  /\ Completed
  /\ received = 1
  /\ CallerOf(last) = "u2"
  /\ last.adm.allowed
  /\ rateLimits["u2"] = FirstRecord(now)
  /\ rateLimits["u1"] = [FirstRecord(0) EXCEPT !.count = FREE_LIMIT - 1]
  /\ now > 0

(* ------------------------------------------------------------------ *)
(* C32                                                                  *)
(* ------------------------------------------------------------------ *)
\* The Map the quota step leaves, from the Map before it, the caller id,
\* the tier flag and the clock: the 429 branch returns before the size check
QuotaTableAfter(tbl, oth, u, isPremium, t) ==
  LET q == RateLimit(tbl, u, Limit(isPremium), t)
  IN  IF q.allowed
        THEN ClearIfLarge(q.table, oth)
        ELSE [table |-> q.table, others |-> oth]

\* this step leaves the Map the quota step computes for rq
TableAsComputed(rq) ==
  \E after \in {QuotaTableAfter(rateLimits, others, rq.userId, ToBoolean(rq.isPremium), now)} :
    rateLimits' = after.table /\ others' = after.others

\* C32: in the per-minute handlers the quota table after a valid request is
\* a function of the table before it, the caller id, the tier flag and the
\* time, whatever the message text (blocked or not) and with or without
\* the credential; the steps after the upstream call, success or failure,
\* leave the table as it is.
C32_TableIndependentOfOutcome ==
  [][/\ \A rq \in Arriving :
          PassesValidation(rq) => (TableAsComputed(rq) \/ ~Arrival(rq))
     /\ \A r \in Reqs :
          StepOf(r) => (rateLimits' = rateLimits /\ others' = others)]_vars

\* a request was refused for the missing credential, and the quota step
\* has counted it as it counts any other
C32_Witness ==
  /\ Completed
  /\ ~apiKey
  /\ last.resp.status = 500
  /\ last.resp.kind = "config"
  /\ last.calls = 0
  /\ rateLimits[CallerOf(last)].present
  /\ rateLimits[CallerOf(last)].count = received
  /\ received = MaxRequests

(* ------------------------------------------------------------------ *)
(* C33                                                                  *)
(* ------------------------------------------------------------------ *)
\* The continuation of the request of slot r runs: the promise it awaits
\* (the upstream call, the next chunk of the upstream stream, the 10 ms
\* timer) has settled.
Progress(r) ==
  \/ \E shape \in Shapes : UpstreamReturns(r, shape)
  \/ \E detail \in BOOLEAN : UpstreamThrows(r, detail)
  \/ \E shape \in Shapes, text \in Texts : TextReturns(r, shape, text)
  \/ SliceTimer(r)
  \/ StreamOpens(r)
  \/ \E chunkText \in ChunkTexts : NextChunk(r, chunkText)
  \/ ChunkThrows(r)
  \/ StreamEnds(r)

\* Every promise a handler awaits settles, and the event loop then runs the
\* continuation: no handler sets a timeout of its own.
SpecFair == Init /\ [][Next]_vars /\ \A r \in Reqs : WF_vars(Progress(r))

JsonKinds == {"options", "method", "invalid", "nouser", "limited", "config", "fail", "ok"}
StreamKinds == {"stream"}

\* the response of a completed exchange is one whole response: a status
\* line, and either one JSON body or one stream that has been ended
OneResponse(response) ==
  /\ response.status \in {200, 400, 405, 429, 500}
  /\ response.ended
  /\ response.kind \in JsonKinds => response.frames = <<>>
  /\ response.kind \in StreamKinds =>
       (response.status = 200 /\ (response.fault \/ response.frames # <<>>))
  /\ response.kind = "blocked" => response.status = 200

\* C33: every request is completed exactly once on every path.  The
\* exchange a step completes carries one whole response; a request still in
\* flight has no ended response, unless its caller has gone; a step
\* completes at most one exchange and frees its slot; nothing is added to a
\* response once it is ended; and every request in flight is eventually
\* completed.
C33_CompletedExactlyOnce ==
  /\ [](/\ Completed => OneResponse(last.resp)
        /\ \A r \in Reqs :
             /\ pc[r] = "idle" => (resp[r] = NoResp /\ req[r] = NoRequest)
             /\ pc[r] # "idle" => (req[r] # NoRequest /\ (resp[r].ended => up[r].cancelled)))
  /\ [][\A r \in Reqs :
          /\ (pc[r] # "idle" /\ pc'[r] = "idle")
             => (/\ last'.req = req[r]
                 /\ OneResponse(last'.resp)
                 /\ \A q \in Reqs \ {r} : pc'[q] = pc[q] /\ resp'[q] = resp[q])
          /\ (pc[r] # "idle" /\ resp[r].ended)
             => (IF pc'[r] = "idle" THEN last'.resp.frames = resp[r].frames
                                   ELSE resp'[r] = resp[r])]_vars
  /\ \A r \in Reqs : (pc[r] # "idle") ~> (pc[r] = "idle")

\* the re-chunking handler has ended a stream of two slices and the
\* sentinel, written in three steps
C33_Witness ==
  /\ Completed
  /\ variant = "rechunk"
  /\ last.resp.kind = "stream"
  /\ last.resp.ended
  /\ Len(last.resp.frames) = 3
  /\ last.resp.frames[3] = DoneFrame
  /\ last.calls = 1
====
